---- MODULE Spec2Model ----
(***************************************************************************)
(* Model of script/data_scraper.py: a thread pool fetches one HTTP         *)
(* response per course code, writes every non-empty JSON answer to         *)
(* json/<code>.json under write_lock and tallies the outcome in the two    *)
(* global counters successful / failed under counter_lock.                 *)
(*                                                                         *)
(* Spec      one run of main(), file writes succeed                        *)
(* FairSpec  Spec with the scheduler's fairness (for termination)          *)
(* SpecIO    one run of main(), the write of a file may raise OSError      *)
(* FairSpecIO SpecIO with the scheduler's fairness                         *)
(* SpecFetch fetch_course_data alone, applied to one drawn response        *)
(* SpecFormat the rendering of the code string alone, applied to drawn     *)
(*           code numbers                                                  *)
(***************************************************************************)
EXTENDS Integers, Sequences, FiniteSets, Bags, TLC

VARIABLES
    mainpc,        \* position of main(): "start", "submit", "as_completed", "exit", "crashed"
    num_threads,   \* max_workers of the pool (multiprocessing.cpu_count())
    next_i,        \* how many codes of range(10000) the submit loop has submitted
    queue,         \* the executor's work queue: submitted codes no worker has taken yet
    pc,            \* position of each process_code(code_num, output_dir) call
    future,        \* state of each task's future
    data,          \* process_code's local `data`
    tmp,           \* value loaded by `successful += 1` / `failed += 1` before the store
    write_lock,    \* owner of write_lock, or NoOwner
    counter_lock,  \* owner of counter_lock, or NoOwner
    successful,    \* global counter
    failed,        \* global counter
    files,         \* the output directory: existing file name -> text
    files0,        \* the output directory as the run found it
    yielded,       \* futures as_completed has handed to main's loop
    errors,        \* number of "Error processing code" lines printed
    summary,       \* the final summary block, once printed
    stdout,        \* the lines process_code has printed, as a bag
    submits,       \* how many times each code was handed to executor.submit
    fetches,       \* how many times fetch_course_data was called for each code
    f_pc,          \* SpecFetch: position of the single fetch_course_data call
    f_resp,        \* SpecFetch: the response requests.get meets
    f_out,         \* SpecFetch: how the call ended
    fmt_pc,        \* SpecFormat: position of the rendering
    fmt_in,        \* SpecFormat: the two code numbers rendered
    fmt_out        \* SpecFormat: their code strings

vars == <<mainpc, num_threads, next_i, queue, pc, future, data, tmp, write_lock,
          counter_lock, successful, failed, files, files0, yielded, errors,
          summary, stdout, submits, fetches, f_pc, f_resp, f_out, fmt_pc, fmt_in,
          fmt_out>>

runvars == <<mainpc, num_threads, next_i, queue, pc, future, data, tmp, write_lock,
             counter_lock, successful, failed, files, files0, yielded, errors,
             summary, stdout, submits, fetches>>

fetchvars == <<f_pc, f_resp, f_out>>

fmtvars == <<fmt_pc, fmt_in, fmt_out>>

purevars == <<fetchvars, fmtvars>>

(***************************************************************************)
(* Bounds of the model.                                                    *)
(***************************************************************************)
\* number of codes of range(10000) the model dispatches
NumCodes == 3
\* the dispatched codes are 0, CodeStride, 2*CodeStride, ...
CodeStride == 50
\* largest pool size cpu_count() may report
MaxThreads == 2

\* range(10000)
RangeEnd == 10000

CodeNum(i) == i * CodeStride
Codes == {CodeNum(i) : i \in 0 .. NumCodes - 1}

NoOwner == -1

(***************************************************************************)
(* Python values.  A value is a record: its type, its number of elements   *)
(* (for the types that have a len()) and its content.                      *)
(***************************************************************************)
PyValue(t, n, v) == [t |-> t, n |-> n, v |-> v]

None == PyValue("NoneType", 0, "")

Unset == PyValue("unset", 0, "")

\* the types len() accepts among those json can produce
Sized == {"dict", "list", "str"}

(***************************************************************************)
(* response.json(): the parse of a body, or JSONDecodeError.               *)
(***************************************************************************)
Parsed(val) == [ok |-> TRUE, val |-> val]

DecodeError == [ok |-> FALSE, val |-> Unset]

json_loads(text) ==
    CASE text = "{}"                 -> Parsed(PyValue("dict", 0, ""))
      [] text = "[]"                 -> Parsed(PyValue("list", 0, ""))
      [] text = "\"\""               -> Parsed(PyValue("str", 0, ""))
      [] text = "{\"a\":1}"          -> Parsed(PyValue("dict", 1, "a=1"))
      [] text = "{\n  \"a\": 1\n}"   -> Parsed(PyValue("dict", 1, "a=1"))
      [] text = "[1,2]"              -> Parsed(PyValue("list", 2, "1,2"))
      [] text = "[\n  1,\n  2\n]"    -> Parsed(PyValue("list", 2, "1,2"))
      [] text = "\"x\""              -> Parsed(PyValue("str", 1, "x"))
      [] text = "5"                  -> Parsed(PyValue("int", 0, "5"))
      [] text = "true"               -> Parsed(PyValue("bool", 0, "True"))
      [] text = "null"               -> Parsed(None)
      [] OTHER                       -> DecodeError

(***************************************************************************)
(* json.dump(data, f, ensure_ascii=False, indent=2): the text written.     *)
(***************************************************************************)
json_dump(val) ==
    CASE val.t = "dict" /\ val.n = 0      -> "{}"
      [] val.t = "list" /\ val.n = 0      -> "[]"
      [] val.t = "str" /\ val.n = 0       -> "\"\""
      [] val.t = "dict" /\ val.v = "a=1"  -> "{\n  \"a\": 1\n}"
      [] val.t = "list" /\ val.v = "1,2"  -> "[\n  1,\n  2\n]"
      [] val.t = "str" /\ val.v = "x"     -> "\"x\""
      [] val.t = "int"                    -> val.v
      [] val.t = "bool"                   -> "true"
      [] OTHER                            -> "null"

(***************************************************************************)
(* The responses requests.get(url, headers, timeout=10) can meet.          *)
(***************************************************************************)
Statuses == {200, 201, 204, 301, 404, 500}

Bodies == {"{}", "[]", "\"\"", "{\"a\":1}", "[1,2]", "\"x\"", "5", "true", "null",
           "<html>", ""}

Responses ==
    [transport : {"ok"}, status : Statuses, body : Bodies]
        \cup [transport : {"ConnectionError", "Timeout"}, status : {0}, body : {""}]

\* the responses the server gives during a run of main(): every status and
\* transport failure, and a body for each way fetch_course_data can end (no
\* JSON, empty, two different non-empty values, a value without len())
RunResponses == {r \in Responses : r.body \notin {"\"\"", "\"x\"", "true", "null"}}

(***************************************************************************)
(* fetch_course_data                                                       *)
(***************************************************************************)
Return(val) == [kind |-> "return", val |-> val, exc |-> ""]

Raise(exc) == [kind |-> "raise", val |-> Unset, exc |-> exc]

NoOutcome == [kind |-> "none", val |-> Unset, exc |-> ""]

\* len(data) raises TypeError for a value of a type without __len__
has_len(val) == val.t \in Sized

\* a plausible slip: every 2xx status accepted
status_2xx(status) == status >= 200 /\ status < 300

\* response.status_code == 200
status_ok(status) == status = 200

\* the body of the try statement
fetch_try(resp) ==
    IF resp.transport # "ok"
    THEN Raise(resp.transport)
    ELSE IF status_ok(resp.status)
         THEN LET parsed == json_loads(resp.body)
              IN  IF ~parsed.ok
                  THEN Raise("JSONDecodeError")
                  ELSE IF ~has_len(parsed.val)
                       THEN Raise("TypeError")
                       ELSE IF parsed.val.n = 0 THEN Return(None) ELSE Return(parsed.val)
         ELSE Return(None)

\* the exception classes derived from requests.RequestException
RequestException == {"ConnectionError", "Timeout", "JSONDecodeError"}

\* except (requests.RequestException, json.JSONDecodeError)
except_clause(exc) == exc \in RequestException \cup {"JSONDecodeError"}

fetch_course_data(resp) ==
    LET o == fetch_try(resp)
    IN  IF o.kind = "raise" /\ except_clause(o.exc) THEN Return(None) ELSE o

(***************************************************************************)
(* process_code: the pure parts                                            *)
(***************************************************************************)
DigitChar(d) ==
    CASE d = 0 -> "0" [] d = 1 -> "1" [] d = 2 -> "2" [] d = 3 -> "3" [] d = 4 -> "4"
      [] d = 5 -> "5" [] d = 6 -> "6" [] d = 7 -> "7" [] d = 8 -> "8" [] d = 9 -> "9"

RECURSIVE Decimal(_)
Decimal(n) == IF n < 10 THEN DigitChar(n) ELSE Decimal(n \div 10) \o DigitChar(n % 10)

RECURSIVE ZeroPad(_, _)
ZeroPad(s, width) == IF Len(s) >= width THEN s ELSE ZeroPad("0" \o s, width)

\* a plausible slip: the code rendered without the zero padding
format_code_unpadded(code_num) == Decimal(code_num)

\* f"{code_num:04d}"
format_code(code_num) == ZeroPad(Decimal(code_num), 4)

output_dir == "json"

\* a plausible slip: the code left out of the file name
filename_fixed(code) == output_dir \o "/" \o "data.json"

\* os.path.join(output_dir, f"{code}.json")
filename_of(code) == output_dir \o "/" \o code \o ".json"

Filename(code_num) == filename_of(format_code(code_num))

\* a plausible slip: the result saved without the test
is_present_always(val) == TRUE

\* data is not None
is_present(val) == val # None

\* a plausible slip: mode 'a', the file is created or kept
open_a(dir, name) ==
    [n \in DOMAIN dir \cup {name} |-> IF n \in DOMAIN dir THEN dir[n] ELSE ""]

\* open(filename, 'w'): the file is created or truncated
open_w(dir, name) == [n \in DOMAIN dir \cup {name} |-> IF n = name THEN "" ELSE dir[n]]

\* a plausible slip: the text never reaches the file
write_text_lost(dir, name, text) == dir

\* f.write of the dumped text at the file's position (its end)
write_text(dir, name, text) == [dir EXCEPT ![name] = @ \o text]

\* a plausible slip: the section entered without waiting for the lock
lock_free_always(lock) == TRUE

\* entering a `with lock:` block: acquire() waits until the lock is unlocked
lock_free(lock) == lock = NoOwner

\* a plausible slip: acquire() without a release on the way out
with_exit_held(owner) == owner

\* leaving a `with lock:` block, normally or by an exception
with_exit(owner) == NoOwner

\* a plausible slip: the counter bumped twice
increment_twice(n) == n + 2

\* counter += 1, applied to the loaded value
increment(n) == n + 1

\* print(f"\u2713 {code}: Saved to {filename}")
success_line(code, filename) ==
    [kind |-> "saved", code |-> code, file |-> filename, success |-> 0, failed |-> 0]

\* a plausible slip: the two counters in each other's place
progress_line_swapped(code, nsuccessful, nfailed) ==
    [kind |-> "progress", code |-> code, file |-> "", success |-> nfailed,
     failed |-> nsuccessful]

\* print(f"\u2717 Progress: {code} (Success: {successful}, Failed: {failed})")
progress_line(code, nsuccessful, nfailed) ==
    [kind |-> "progress", code |-> code, file |-> "", success |-> nsuccessful,
     failed |-> nfailed]

\* the period of the progress lines
ProgressEvery == 100

\* a plausible slip: a progress line every 10 codes
progress_due_every_ten(code_num) == code_num % 10 = 0

\* code_num % 100 == 0
progress_due(code_num) == code_num % ProgressEvery = 0

Running == {c \in Codes : pc[c] \notin {"unsubmitted", "queued", "done"}}

(***************************************************************************)
(* The output directories a run may find.                                  *)
(***************************************************************************)
FileNames == {Filename(c) : c \in Codes}

OldText == json_dump(PyValue("list", 2, "1,2"))

\* empty, or populated by an earlier run
InitialDirs == {[n \in S |-> OldText] : S \in {{}, FileNames}}

(***************************************************************************)
(* Initial states                                                          *)
(***************************************************************************)
InitRun ==
    /\ mainpc = "start"
    /\ num_threads = 0
    /\ next_i = 0
    /\ queue = <<>>
    /\ pc = [c \in Codes |-> "unsubmitted"]
    /\ future = [c \in Codes |-> "NONE"]
    /\ data = [c \in Codes |-> Unset]
    /\ tmp = [c \in Codes |-> 0]
    /\ write_lock = NoOwner
    /\ counter_lock = NoOwner
    /\ successful = 0
    /\ failed = 0
    /\ files0 \in InitialDirs
    /\ files = files0
    /\ yielded = {}
    /\ errors = 0
    /\ summary = [printed |-> FALSE, successful |-> 0, failed |-> 0, total |-> 0]
    /\ stdout = EmptyBag
    /\ submits = [c \in Codes |-> 0]
    /\ fetches = [c \in Codes |-> 0]

FetchIdle ==
    /\ f_pc = "idle"
    /\ f_resp = [transport |-> "ok", status |-> 200, body |-> ""]
    /\ f_out = NoOutcome

FormatIdle ==
    /\ fmt_pc = "idle"
    /\ fmt_in = [n |-> 0, m |-> 0]
    /\ fmt_out = [n |-> "", m |-> ""]

Init == InitRun /\ FetchIdle /\ FormatIdle

(***************************************************************************)
(* main                                                                    *)
(***************************************************************************)
\* lines 103-115: makedirs, cpu_count, the counters reset
MainStart ==
    /\ mainpc = "start"
    /\ num_threads' \in 1 .. MaxThreads
    /\ successful' = 0
    /\ failed' = 0
    /\ mainpc' = "submit"
    /\ UNCHANGED purevars
    /\ UNCHANGED <<stdout, submits, fetches>>
    /\ UNCHANGED <<next_i, queue, pc, future, data, tmp, write_lock, counter_lock,
                   files, files0, yielded, errors, summary>>

\* a plausible slip: range(0, 10000, 2)
next_index_skipping(i) == i + 2

\* for code_num in range(10000): the next value of the loop
next_index(i) == i + 1

\* lines 120-121: executor.submit(process_code, code_num, output_dir)
Submit ==
    /\ mainpc = "submit"
    /\ next_i < NumCodes
    /\ LET c == CodeNum(next_i)
       IN  /\ queue' = Append(queue, c)
           /\ pc' = [pc EXCEPT ![c] = "queued"]
           /\ future' = [future EXCEPT ![c] = "PENDING"]
           /\ submits' = [submits EXCEPT ![c] = @ + 1]
    /\ next_i' = next_index(next_i)
    /\ mainpc' = IF next_index(next_i) >= NumCodes THEN "as_completed" ELSE "submit"
    /\ UNCHANGED purevars
    /\ UNCHANGED <<stdout, fetches>>
    /\ UNCHANGED <<num_threads, data, tmp, write_lock, counter_lock, successful,
                   failed, files, files0, yielded, errors, summary>>

\* a plausible slip: future.result() outside any try
main_catches_nothing(exc) == FALSE

\* except Exception
main_catches(exc) == exc \in {"TypeError", "OSError"}

\* lines 124-128: as_completed yields a finished future; future.result()
AsCompleted(c) ==
    /\ mainpc = "as_completed"
    /\ c \notin yielded
    /\ future[c] \in {"RESULT_TRUE", "RESULT_FALSE", "TypeError", "OSError"}
    /\ yielded' = yielded \cup {c}
    /\ IF future[c] \in {"RESULT_TRUE", "RESULT_FALSE"}
       THEN UNCHANGED <<errors, mainpc>>
       ELSE IF main_catches(future[c])
            THEN errors' = errors + 1 /\ UNCHANGED mainpc
            ELSE mainpc' = "crashed" /\ UNCHANGED errors
    /\ UNCHANGED purevars
    /\ UNCHANGED <<stdout, submits, fetches>>
    /\ UNCHANGED <<num_threads, next_i, queue, pc, future, data, tmp, write_lock,
                   counter_lock, successful, failed, files, files0, summary>>

\* lines 118, 130-134: the pool is shut down and the summary printed
Summary ==
    /\ mainpc = "as_completed"
    /\ yielded = Codes
    /\ Running = {}
    /\ summary' = [printed |-> TRUE, successful |-> successful, failed |-> failed,
                   total |-> successful + failed]
    /\ mainpc' = "exit"
    /\ UNCHANGED purevars
    /\ UNCHANGED <<stdout, submits, fetches>>
    /\ UNCHANGED <<num_threads, next_i, queue, pc, future, data, tmp, write_lock,
                   counter_lock, successful, failed, files, files0, yielded, errors>>

(***************************************************************************)
(* process_code, run by a worker of the pool                               *)
(***************************************************************************)
\* a worker takes the oldest queued task
Start(c) ==
    /\ queue # <<>>
    /\ c = Head(queue)
    /\ Cardinality(Running) < num_threads
    /\ queue' = Tail(queue)
    /\ pc' = [pc EXCEPT ![c] = "fetch"]
    /\ future' = [future EXCEPT ![c] = "RUNNING"]
    /\ UNCHANGED purevars
    /\ UNCHANGED <<stdout, submits, fetches>>
    /\ UNCHANGED <<mainpc, num_threads, next_i, data, tmp, write_lock, counter_lock,
                   successful, failed, files, files0, yielded, errors, summary>>

\* lines 73-78: the fetch and the test of its result
Fetch(c) ==
    /\ pc[c] = "fetch"
    /\ \E resp \in RunResponses :
          LET o == fetch_course_data(resp)
          IN  IF o.kind = "raise"
              THEN /\ pc' = [pc EXCEPT ![c] = "done"]
                   /\ future' = [future EXCEPT ![c] = o.exc]
                   /\ UNCHANGED data
              ELSE /\ data' = [data EXCEPT ![c] = o.val]
                   /\ pc' = [pc EXCEPT ![c] =
                                IF is_present(o.val) THEN "write" ELSE "count_failed"]
                   /\ UNCHANGED future
    /\ fetches' = [fetches EXCEPT ![c] = @ + 1]
    /\ UNCHANGED purevars
    /\ UNCHANGED <<stdout, submits>>
    /\ UNCHANGED <<mainpc, num_threads, next_i, queue, tmp, write_lock, counter_lock,
                   successful, failed, files, files0, yielded, errors, summary>>

\* lines 82-83: write_lock acquired, the file opened for writing
WriteOpen(c) ==
    /\ pc[c] = "write"
    /\ lock_free(write_lock)
    /\ write_lock' = c
    /\ files' = open_w(files, Filename(c))
    /\ pc' = [pc EXCEPT ![c] = "dump"]
    /\ UNCHANGED purevars
    /\ UNCHANGED <<stdout, submits, fetches>>
    /\ UNCHANGED <<mainpc, num_threads, next_i, queue, future, data, tmp,
                   counter_lock, successful, failed, files0, yielded, errors, summary>>

\* line 84 and the two with-exits: the text written, file closed, lock released
WriteDump(c) ==
    /\ pc[c] = "dump"
    /\ files' = write_text(files, Filename(c), json_dump(data[c]))
    /\ write_lock' = with_exit(write_lock)
    /\ pc' = [pc EXCEPT ![c] = "count_successful"]
    /\ UNCHANGED purevars
    /\ UNCHANGED <<stdout, submits, fetches>>
    /\ UNCHANGED <<mainpc, num_threads, next_i, queue, future, data, tmp,
                   counter_lock, successful, failed, files0, yielded, errors, summary>>

\* lines 86-87: counter_lock acquired, successful loaded
LoadSuccessful(c) ==
    /\ pc[c] = "count_successful"
    /\ lock_free(counter_lock)
    /\ counter_lock' = c
    /\ tmp' = [tmp EXCEPT ![c] = successful]
    /\ pc' = [pc EXCEPT ![c] = "store_successful"]
    /\ UNCHANGED purevars
    /\ UNCHANGED <<stdout, submits, fetches>>
    /\ UNCHANGED <<mainpc, num_threads, next_i, queue, future, data, write_lock,
                   successful, failed, files, files0, yielded, errors, summary>>

\* line 87: successful stored
StoreSuccessful(c) ==
    /\ pc[c] = "store_successful"
    /\ successful' = increment(tmp[c])
    /\ tmp' = [tmp EXCEPT ![c] = 0]
    /\ pc' = [pc EXCEPT ![c] = "print_successful"]
    /\ UNCHANGED purevars
    /\ UNCHANGED <<stdout, submits, fetches>>
    /\ UNCHANGED <<mainpc, num_threads, next_i, queue, future, data, write_lock,
                   counter_lock, failed, files, files0, yielded, errors, summary>>

\* lines 88-90: the success line, counter_lock released, (code, True) returned
ReturnTrue(c) ==
    /\ pc[c] = "print_successful"
    /\ stdout' = stdout (+) SetToBag({success_line(format_code(c), Filename(c))})
    /\ counter_lock' = with_exit(counter_lock)
    /\ pc' = [pc EXCEPT ![c] = "done"]
    /\ future' = [future EXCEPT ![c] = "RESULT_TRUE"]
    /\ UNCHANGED purevars
    /\ UNCHANGED <<submits, fetches>>
    /\ UNCHANGED <<mainpc, num_threads, next_i, queue, data, tmp, write_lock,
                   successful, failed, files, files0, yielded, errors, summary>>

\* lines 92-93: counter_lock acquired, failed loaded
LoadFailed(c) ==
    /\ pc[c] = "count_failed"
    /\ lock_free(counter_lock)
    /\ counter_lock' = c
    /\ tmp' = [tmp EXCEPT ![c] = failed]
    /\ pc' = [pc EXCEPT ![c] = "store_failed"]
    /\ UNCHANGED purevars
    /\ UNCHANGED <<stdout, submits, fetches>>
    /\ UNCHANGED <<mainpc, num_threads, next_i, queue, future, data, write_lock,
                   successful, failed, files, files0, yielded, errors, summary>>

\* line 93: failed stored
StoreFailed(c) ==
    /\ pc[c] = "store_failed"
    /\ failed' = increment(tmp[c])
    /\ tmp' = [tmp EXCEPT ![c] = 0]
    /\ pc' = [pc EXCEPT ![c] = "print_failed"]
    /\ UNCHANGED purevars
    /\ UNCHANGED <<stdout, submits, fetches>>
    /\ UNCHANGED <<mainpc, num_threads, next_i, queue, future, data, write_lock,
                   counter_lock, successful, files, files0, yielded, errors, summary>>

\* lines 94-95: the progress line is due; its f-string loads successful first
ProgressLoad(c) ==
    /\ pc[c] = "print_failed"
    /\ progress_due(c)
    /\ tmp' = [tmp EXCEPT ![c] = successful]
    /\ pc' = [pc EXCEPT ![c] = "progress"]
    /\ UNCHANGED purevars
    /\ UNCHANGED <<stdout, submits, fetches>>
    /\ UNCHANGED <<mainpc, num_threads, next_i, queue, future, data, write_lock,
                   counter_lock, successful, failed, files, files0, yielded, errors,
                   summary>>

\* lines 94-97: the progress line, if due, printed with failed loaded last;
\* counter_lock released, (code, False) returned
ReturnFalse(c) ==
    /\ \/ pc[c] = "print_failed" /\ ~progress_due(c)
       \/ pc[c] = "progress"
    /\ stdout' = IF pc[c] = "progress"
                 THEN stdout (+) SetToBag({progress_line(format_code(c), tmp[c], failed)})
                 ELSE stdout
    /\ tmp' = [tmp EXCEPT ![c] = 0]
    /\ counter_lock' = with_exit(counter_lock)
    /\ pc' = [pc EXCEPT ![c] = "done"]
    /\ future' = [future EXCEPT ![c] = "RESULT_FALSE"]
    /\ UNCHANGED purevars
    /\ UNCHANGED <<submits, fetches>>
    /\ UNCHANGED <<mainpc, num_threads, next_i, queue, data, write_lock,
                   successful, failed, files, files0, yielded, errors, summary>>

\* line 84: the write raises OSError (a full disk, a failing device); the file
\* stays as open() left it and both with-blocks are left by the exception
DumpFails(c) ==
    /\ pc[c] = "dump"
    /\ write_lock' = with_exit(write_lock)
    /\ pc' = [pc EXCEPT ![c] = "done"]
    /\ future' = [future EXCEPT ![c] = "OSError"]
    /\ UNCHANGED purevars
    /\ UNCHANGED <<stdout, submits, fetches>>
    /\ UNCHANGED <<mainpc, num_threads, next_i, queue, data, tmp, counter_lock,
                   successful, failed, files, files0, yielded, errors, summary>>

Next ==
    \/ MainStart
    \/ Submit
    \/ \E c \in Codes : AsCompleted(c)
    \/ Summary
    \/ \E c \in Codes : Start(c)
    \/ \E c \in Codes : Fetch(c)
    \/ \E c \in Codes : WriteOpen(c)
    \/ \E c \in Codes : WriteDump(c)
    \/ \E c \in Codes : LoadSuccessful(c)
    \/ \E c \in Codes : StoreSuccessful(c)
    \/ \E c \in Codes : ReturnTrue(c)
    \/ \E c \in Codes : LoadFailed(c)
    \/ \E c \in Codes : StoreFailed(c)
    \/ \E c \in Codes : ProgressLoad(c)
    \/ \E c \in Codes : ReturnFalse(c)

NextIO ==
    \/ Next
    \/ \E c \in Codes : DumpFails(c)

Spec == Init /\ [][Next]_vars

FairSpec == Spec /\ WF_vars(Next)

SpecIO == Init /\ [][NextIO]_vars

FairSpecIO == SpecIO /\ WF_vars(NextIO)

(***************************************************************************)
(* fetch_course_data alone                                                 *)
(***************************************************************************)
InitFetch ==
    /\ InitRun
    /\ f_pc = "call"
    /\ f_resp \in Responses
    /\ f_out = NoOutcome
    /\ FormatIdle

FetchReturns ==
    /\ f_pc = "call"
    /\ fetch_course_data(f_resp).kind = "return"
    /\ f_out' = fetch_course_data(f_resp)
    /\ f_pc' = "returned"
    /\ UNCHANGED <<f_resp, runvars, fmtvars>>

FetchRaises ==
    /\ f_pc = "call"
    /\ fetch_course_data(f_resp).kind = "raise"
    /\ f_out' = fetch_course_data(f_resp)
    /\ f_pc' = "raised"
    /\ UNCHANGED <<f_resp, runvars, fmtvars>>

NextFetch == FetchReturns \/ FetchRaises

SpecFetch == InitFetch /\ [][NextFetch]_vars

(***************************************************************************)
(* The rendering of the code string alone: line 73 applied to a code       *)
(* number of range(10000) and to a second one to compare it with.          *)
(***************************************************************************)
FormatSamples == {0, 1, 9, 10, 99, 100, 999, 1000, 9999}

InitFormat ==
    /\ InitRun
    /\ FetchIdle
    /\ fmt_pc = "call"
    /\ fmt_in \in [n : 0 .. RangeEnd - 1, m : FormatSamples]
    /\ fmt_out = [n |-> "", m |-> ""]

Render ==
    /\ fmt_pc = "call"
    /\ fmt_out' = [n |-> format_code(fmt_in.n), m |-> format_code(fmt_in.m)]
    /\ fmt_pc' = "rendered"
    /\ UNCHANGED <<fmt_in, runvars, fetchvars>>

NextFormat == Render

SpecFormat == InitFormat /\ [][NextFormat]_vars

(***************************************************************************)
(* Vocabulary of the properties                                            *)
(***************************************************************************)
Finished == {"RESULT_TRUE", "RESULT_FALSE", "TypeError", "OSError"}

Exceptions == {"TypeError", "OSError"}

\* fetch_course_data returned a value other than None for c
ClassifiedPresent(c) == data[c] \notin {Unset, None}

\* fetch_course_data returned None for c
ClassifiedAbsent(c) == data[c] = None

Exists(name) == name \in DOMAIN files

RunEnded == mainpc = "exit"

StartedEmpty == DOMAIN files0 = {}

StartedPopulated == DOMAIN files0 = FileNames

FetchEnded == f_pc \in {"returned", "raised"}

\* a parsed value with no elements: the empty object, array or string
IsEmpty(val) == val.t \in Sized /\ val.n = 0

(***************************************************************************)
(* C1: at the end of a run, successful + failed (and the printed total)    *)
(* equals the number of dispatched codes, whatever the server answered.    *)
(* Fails: a 200 response whose body is a JSON number makes len() raise     *)
(* TypeError in the task, which then reaches neither counter.              *)
(***************************************************************************)
C1_TotalIsAllCodes ==
    RunEnded => /\ successful + failed = NumCodes
                /\ summary.total = NumCodes

(***************************************************************************)
(* C2: at the end of a run that started with an empty output directory,    *)
(* the file of a code exists if and only if the fetch of that code         *)
(* returned a value (Present); no file exists for an Absent code.          *)
(***************************************************************************)
C2_FileIffPresent ==
    (RunEnded /\ StartedEmpty) =>
        \A c \in Codes : Exists(Filename(c)) <=> ClassifiedPresent(c)

C2_Witness ==
    /\ RunEnded
    /\ StartedEmpty
    /\ \E c \in Codes : ClassifiedPresent(c) /\ Exists(Filename(c))
    /\ \E c \in Codes : ClassifiedAbsent(c) /\ ~Exists(Filename(c))

(***************************************************************************)
(* C3: for every response with status 200 whose body parses as JSON to a   *)
(* value that is not empty, fetch_course_data returns that value, for a    *)
(* parsed value of any JSON type.  Fails for numbers, booleans and null:   *)
(* len() raises TypeError.                                                 *)
(***************************************************************************)
C3_NonEmptyIsPresent ==
    (/\ FetchEnded
     /\ f_resp.transport = "ok"
     /\ f_resp.status = 200
     /\ json_loads(f_resp.body).ok
     /\ ~IsEmpty(json_loads(f_resp.body).val))
        => f_out = Return(json_loads(f_resp.body).val)

(***************************************************************************)
(* C4: fetch_course_data never propagates a failure: whatever the request  *)
(* meets, the call ends by returning a value.  Fails: the TypeError of     *)
(* len() is not among the exceptions the except clause names.              *)
(***************************************************************************)
C4_NeverRaises == FetchEnded => f_out.kind = "return"

(***************************************************************************)
(* C5: fetch_course_data returns None whenever the transport fails, the    *)
(* status is not 200 (whatever the body), the body is not valid JSON, or   *)
(* the parsed value is empty; the value returned is the same in all four   *)
(* cases.                                                                  *)
(***************************************************************************)
C5_FailuresAreAbsent ==
    (/\ FetchEnded
     /\ \/ f_resp.transport # "ok"
        \/ f_resp.status # 200
        \/ ~json_loads(f_resp.body).ok
        \/ IsEmpty(json_loads(f_resp.body).val))
        => f_out = Return(None)

C5_Witness ==
    /\ f_pc = "returned"
    /\ f_resp.transport = "ok"
    /\ f_resp.status = 404
    /\ json_loads(f_resp.body).ok
    /\ ~IsEmpty(json_loads(f_resp.body).val)
    /\ f_out = Return(None)

(***************************************************************************)
(* C6: an exception raised inside one task does not abort the run: the     *)
(* run still ends with the summary printed and every task resolved, the    *)
(* step in which a task fails changes neither counter, and the tally       *)
(* counts exactly the tasks that returned.                                 *)
(***************************************************************************)
C6_FailureIsolated ==
    /\ <>RunEnded
    /\ [](RunEnded =>
            /\ summary.printed
            /\ \A c \in Codes : future[c] \in Finished
            /\ summary.successful = Cardinality({c \in Codes : future[c] = "RESULT_TRUE"})
            /\ summary.failed = Cardinality({c \in Codes : future[c] = "RESULT_FALSE"}))
    /\ [][(\E c \in Codes : future[c] \notin Exceptions /\ future'[c] \in Exceptions)
            => (successful' = successful /\ failed' = failed)]_vars

C6_Witness ==
    /\ RunEnded
    /\ summary.printed
    /\ \E c \in Codes : future[c] = "OSError"
    /\ \E c \in Codes : future[c] = "TypeError"
    /\ \E c \in Codes : future[c] = "RESULT_TRUE"
    /\ summary.total = NumCodes - 2

(***************************************************************************)
(* C7: when different Present codes are processed concurrently, the file   *)
(* of each code whose write is over holds exactly the value fetched for    *)
(* that code, under every interleaving.                                    *)
(***************************************************************************)
Written(c) ==
    \/ pc[c] \in {"count_successful", "store_successful", "print_successful"}
    \/ future[c] = "RESULT_TRUE"

C7_OwnValue ==
    \A c \in Codes :
        Written(c) => /\ Exists(Filename(c))
                      /\ json_loads(files[Filename(c)]) = Parsed(data[c])

C7_Witness ==
    \E c1, c2 \in Codes :
        /\ c1 # c2
        /\ pc[c1] = "count_successful"
        /\ pc[c2] = "count_successful"
        /\ data[c1] # data[c2]
        /\ json_loads(files[Filename(c1)]) = Parsed(data[c1])
        /\ json_loads(files[Filename(c2)]) = Parsed(data[c2])

(***************************************************************************)
(* C8: every run of main() terminates, for every pool size: the run        *)
(* reaches its end, and there every code was submitted and attempted,      *)
(* every task is resolved, no lock is held, and the summary is printed     *)
(* only once all tasks are resolved.                                       *)
(***************************************************************************)
C8_Terminates ==
    /\ <>RunEnded
    /\ [](summary.printed =>
            /\ next_i = NumCodes
            /\ queue = <<>>
            /\ \A c \in Codes : future[c] \in Finished /\ pc[c] = "done"
            /\ write_lock = NoOwner
            /\ counter_lock = NoOwner)

C8_Witness ==
    /\ RunEnded
    /\ summary.printed
    /\ num_threads = 1
    /\ \A c \in Codes : future[c] \in Finished

(***************************************************************************)
(* C9: both counters start at zero and never decrease; a step changes the  *)
(* tally only as the counter update of one code: successful + 1 and        *)
(* failed unchanged for a Present code, failed + 1 and successful          *)
(* unchanged for an Absent code; and at the end of the run each counter    *)
(* equals the number of codes of its class, so each Present or Absent      *)
(* code changed the tally exactly once.                                    *)
(***************************************************************************)
TallyStep ==
    \/ successful' = successful /\ failed' = failed
    \/ \E c \in Codes :
          /\ ClassifiedPresent(c)
          /\ future[c] = "RUNNING"
          /\ successful' = successful + 1
          /\ failed' = failed
    \/ \E c \in Codes :
          /\ ClassifiedAbsent(c)
          /\ future[c] = "RUNNING"
          /\ failed' = failed + 1
          /\ successful' = successful

C10_Overwritten ==
    (RunEnded /\ StartedPopulated) =>
        \A c \in Codes :
            ClassifiedPresent(c) =>
                /\ future[c] = "RESULT_TRUE"
                /\ Exists(Filename(c))
                /\ files[Filename(c)] = json_dump(data[c])

C10_Witness ==
    /\ RunEnded
    /\ StartedPopulated
    /\ \E c \in Codes :
          /\ ClassifiedPresent(c)
          /\ files0[Filename(c)] # json_dump(data[c])
          /\ files[Filename(c)] = json_dump(data[c])

(***************************************************************************)
(* Decimal parsing of a string of digits: int(code)                        *)
(***************************************************************************)
DigitValue(ch) ==
    CASE ch = "0" -> 0 [] ch = "1" -> 1 [] ch = "2" -> 2 [] ch = "3" -> 3 [] ch = "4" -> 4
      [] ch = "5" -> 5 [] ch = "6" -> 6 [] ch = "7" -> 7 [] ch = "8" -> 8 [] ch = "9" -> 9

RECURSIVE ParseDecimal(_)
ParseDecimal(s) ==
    IF Len(s) = 0
    THEN 0
    ELSE ParseDecimal(SubSeq(s, 1, Len(s) - 1)) * 10 + DigitValue(SubSeq(s, Len(s), Len(s)))

(***************************************************************************)
(* C11: for every code number n of 0..9999 the rendered code string has    *)
(* exactly 4 characters and parses back, as a decimal integer, to n; the   *)
(* strings of two different code numbers differ, and so do their file      *)
(* names.                                                                  *)
(***************************************************************************)
C11_CodeRoundTrip ==
    fmt_pc = "rendered" =>
        /\ Len(fmt_out.n) = 4
        /\ ParseDecimal(fmt_out.n) = fmt_in.n
        /\ fmt_in.n # fmt_in.m =>
              /\ fmt_out.n # fmt_out.m
              /\ filename_of(fmt_out.n) # filename_of(fmt_out.m)

C11_Witness ==
    /\ fmt_pc = "rendered"
    /\ fmt_in.n = 7
    /\ fmt_in.m = 1000
    /\ fmt_out.n = "0007"
    /\ ParseDecimal(fmt_out.n) = 7

(***************************************************************************)
(* C12: at every moment at most one worker is inside the file-write        *)
(* section (lines 83-84, under write_lock) and at most one worker is       *)
(* inside the counter section (lines 87-88 and 93-95, under counter_lock), *)
(* and that worker is the owner of the lock.                               *)
(***************************************************************************)
InWriteSection == {c \in Codes : pc[c] = "dump"}

InCounterSection ==
    {c \in Codes : pc[c] \in {"store_successful", "print_successful", "store_failed",
                              "print_failed", "progress"}}

C12_MutualExclusion ==
    /\ Cardinality(InWriteSection) <= 1
    /\ Cardinality(InCounterSection) <= 1
    /\ \A c \in InWriteSection : write_lock = c
    /\ \A c \in InCounterSection : counter_lock = c

C12_Witness ==
    \E c1, c2 \in Codes :
        /\ c1 # c2
        /\ pc[c1] = "dump"
        /\ pc[c2] = "write"
        /\ write_lock = c1

(***************************************************************************)
(* C13: every progress line shows both counters as they are at the one     *)
(* instant it is printed: no step changes a counter between the load of    *)
(* successful and the load of failed, and the sum shown is the number of   *)
(* codes whose counter update is complete, the reported code included.     *)
(***************************************************************************)
Printed == BagToSet(stdout)

\* the lines a step prints
NewLines == {l \in BagToSet(stdout') : CopiesIn(l, stdout') > CopiesIn(l, stdout)}

\* the codes whose counter update is complete
Counted ==
    {c \in Codes : \/ pc[c] \in {"print_successful", "print_failed", "progress"}
                   \/ future[c] \in {"RESULT_TRUE", "RESULT_FALSE"}}

C13_ConsistentSnapshot ==
    /\ [][\A l \in NewLines :
            l.kind = "progress" =>
                /\ l.success = successful
                /\ l.failed = failed
                /\ l.success + l.failed = Cardinality(Counted)]_vars
    /\ [][(\E c \in Codes : pc[c] = "progress") =>
            (successful' = successful /\ failed' = failed)]_vars

C13_Witness ==
    /\ \E l \in Printed :
          /\ l.kind = "progress"
          /\ l.code = "0100"
          /\ l.success = 1
          /\ l.failed = 1
    /\ \E c \in Codes : pc[c] \in {"fetch", "write", "dump", "count_successful",
                                   "count_failed"}

(***************************************************************************)
(* C14: a success line is printed exactly once for every code classified   *)
(* Present (once its task returned, never before); for a code classified   *)
(* Absent a progress line is printed, once, if and only if its code number *)
(* is divisible by 100, under every order of completion and whatever the   *)
(* number of failures so far; so a run prints at most 100 progress lines.  *)
(***************************************************************************)
SuccessLines(c) == {l \in Printed : l.kind = "saved" /\ l.code = format_code(c)}

ProgressLines(c) == {l \in Printed : l.kind = "progress" /\ l.code = format_code(c)}

C14_LinesPerCode ==
    /\ \A l \in Printed : CopiesIn(l, stdout) = 1
    /\ \A c \in Codes :
          /\ Cardinality(SuccessLines(c)) = IF future[c] = "RESULT_TRUE" THEN 1 ELSE 0
          /\ Cardinality(ProgressLines(c)) =
                IF future[c] = "RESULT_FALSE" /\ c % 100 = 0 THEN 1 ELSE 0
    /\ RunEnded =>
          /\ \A c \in Codes : ClassifiedPresent(c) => future[c] = "RESULT_TRUE"
          /\ \A c \in Codes : ClassifiedAbsent(c) => future[c] = "RESULT_FALSE"
          /\ Cardinality({l \in Printed : l.kind = "progress"})
                <= Cardinality({c \in Codes : c % 100 = 0})
          /\ Cardinality({n \in 0 .. RangeEnd - 1 : progress_due(n)}) <= 100

C14_Witness ==
    /\ RunEnded
    /\ future[0] = "RESULT_TRUE"
    /\ Cardinality(SuccessLines(0)) = 1
    /\ future[50] = "RESULT_FALSE"
    /\ ProgressLines(50) = {}
    /\ \E l \in ProgressLines(100) : l.failed = 1 /\ l.success = 1

(***************************************************************************)
(* C15: in one run every code is handed to the pool exactly once and       *)
(* fetched exactly once: none is skipped or submitted twice, none is       *)
(* fetched before it is submitted, and a code whose fetch gave Absent is   *)
(* never fetched again.                                                    *)
(***************************************************************************)
C15_OnceEach ==
    /\ \A c \in Codes : submits[c] <= 1 /\ fetches[c] <= submits[c]
    /\ mainpc \in {"as_completed", "exit"} => \A c \in Codes : submits[c] = 1
    /\ RunEnded => \A c \in Codes : fetches[c] = 1
    /\ \A c \in Codes : ClassifiedAbsent(c) => fetches[c] = 1 /\ pc[c] # "fetch"

C15_Witness ==
    /\ RunEnded
    /\ \A c \in Codes : submits[c] = 1 /\ fetches[c] = 1
    /\ \E c \in Codes : ClassifiedAbsent(c)
    /\ \E c \in Codes : ClassifiedPresent(c)

(***************************************************************************)
(* C16: no worker ever holds write_lock and counter_lock together:         *)
(* write_lock is held only inside the write section of a Present code and  *)
(* counter_lock only inside a counter section, so the holder of a lock is  *)
(* never waiting for the other one, and no reachable state short of the    *)
(* end of the run is without a next step.                                  *)
(***************************************************************************)
C16_NoLockCycle ==
    /\ \A c \in Codes : ~(write_lock = c /\ counter_lock = c)
    /\ \A c \in Codes : write_lock = c => (c \in InWriteSection /\ ClassifiedPresent(c))
    /\ \A c \in Codes : counter_lock = c => c \in InCounterSection
    /\ write_lock \in Codes \cup {NoOwner}
    /\ counter_lock \in Codes \cup {NoOwner}
    /\ RunEnded \/ ENABLED Next

C16_Witness ==
    \E c1, c2 \in Codes :
        /\ c1 # c2
        /\ write_lock = c1
        /\ counter_lock = c2
        /\ ClassifiedAbsent(c2)

(***************************************************************************)
(* C17: a code is counted as successful only after its file is completely  *)
(* written: in every reachable state successful is at most the number of   *)
(* codes whose file this run has written in full, and every success line   *)
(* names the file of its code, which exists and holds its final content.   *)
(***************************************************************************)
FullyWritten(c) ==
    /\ Written(c)
    /\ Exists(Filename(c))
    /\ files[Filename(c)] = json_dump(data[c])

C17_CountedAfterWrite ==
    /\ successful <= Cardinality({c \in Codes : FullyWritten(c)})
    /\ \A c \in Codes :
          pc[c] \in {"store_successful", "print_successful"} => FullyWritten(c)
    /\ \A l \in Printed :
          l.kind = "saved" =>
              \E c \in Codes : /\ l.code = format_code(c)
                               /\ l.file = Filename(c)
                               /\ future[c] = "RESULT_TRUE"
                               /\ FullyWritten(c)

C17_Witness ==
    \E c1, c2, c3 \in Codes :
        /\ successful = 1
        /\ future[c1] = "RESULT_TRUE"
        /\ \E l \in Printed : l.kind = "saved" /\ l.file = Filename(c1)
        /\ pc[c2] = "count_successful"
        /\ FullyWritten(c2)
        /\ future[c3] = "OSError"
        /\ files[Filename(c3)] = ""

(***************************************************************************)
(* C18: a step of the task of a code classified Absent changes neither the *)
(* output directory nor successful, so the file an earlier run left for    *)
(* that code is still there, unchanged, at the end of the run; a step of   *)
(* the task of a code classified Present changes neither failed nor the    *)
(* file of any other code; the call of fetch_course_data itself changes    *)
(* no counter, no file, no lock and prints nothing.                        *)
(***************************************************************************)
StepOf(c) == pc'[c] # pc[c]

OtherFilesKept(c) ==
    \A n \in (DOMAIN files \cup DOMAIN files') \ {Filename(c)} :
        /\ n \in DOMAIN files
        /\ n \in DOMAIN files'
        /\ files'[n] = files[n]

C18_Frame ==
    /\ [][\A c \in Codes :
            (StepOf(c) /\ data'[c] = None) =>
                (files' = files /\ successful' = successful)]_vars
    /\ [][\A c \in Codes :
            (StepOf(c) /\ data'[c] \notin {Unset, None}) =>
                (failed' = failed /\ OtherFilesKept(c))]_vars
    /\ [][\A c \in Codes :
            (pc[c] = "fetch" /\ StepOf(c)) =>
                UNCHANGED <<files, successful, failed, write_lock, counter_lock,
                            stdout>>]_vars
    /\ [](RunEnded =>
            \A c \in Codes :
                ClassifiedAbsent(c) =>
                    /\ Exists(Filename(c)) <=> Filename(c) \in DOMAIN files0
                    /\ Exists(Filename(c)) => files[Filename(c)] = files0[Filename(c)])

C18_Witness ==
    /\ RunEnded
    /\ StartedPopulated
    /\ \E c \in Codes : ClassifiedAbsent(c) /\ files[Filename(c)] = OldText
    /\ \E c \in Codes : ClassifiedPresent(c) /\ files[Filename(c)] # OldText
    /\ successful = 1
    /\ failed = 2

====
